---- MODULE Spec2Model ----
(***************************************************************************)
(* unit-forge: the unit registry (unit_table.rs) and the session           *)
(* interpreter (interpretor.rs).                                           *)
(*                                                                         *)
(* A command is a sequence of tokens (the lexical layer of the chumsky     *)
(* parser: padded identifiers, integers and operator characters); the      *)
(* parser and the evaluator are translated operator by operator.           *)
(* f64 values are modelled as exact fractions [n, d]; d = 0 stands for the *)
(* non-finite values (n = 1: +inf, n = -1: -inf, n = 0: NaN).  Rounding    *)
(* and signed zero are not modelled.                                       *)
(***************************************************************************)
EXTENDS Integers, Sequences, FiniteSets, TLC

VARIABLES
    definitions,  \* the UnitDefinitions the session was built from
    unit_table,   \* Interpretor.unit_table: the result of UnitTable::new
    vars,         \* Interpretor.vars: name -> (value, unit)
    last,         \* the latest execute_command call: command, result, environment before it
    assigned,     \* history: name -> result of the latest successful assignment to it
    ncmds,        \* number of commands executed so far
    sessions      \* two Interpretor values built from the same definitions

allvars == <<definitions, unit_table, vars, last, assigned, ncmds, sessions>>

\* number of commands one session executes
MaxCmds == 3

\* F applied to the value of v (a `let` of the source: v is evaluated once)
Bind(v, F(_)) == CHOOSE y \in {F(r) : r \in {v}} : TRUE

-----------------------------------------------------------------------------
(* f64 arithmetic on exact fractions *)

Abs(x) == IF x < 0 THEN -x ELSE x

Sign(x) == IF x < 0 THEN -1 ELSE IF x = 0 THEN 0 ELSE 1

RECURSIVE Gcd(_, _)
Gcd(a, b) == IF b = 0 THEN a ELSE Gcd(b, a % b)

\* the f64 denoted by n / d, in lowest terms with a positive denominator
Frac(n, d) ==
    IF d = 0 THEN [n |-> Sign(n), d |-> 0]
    ELSE LET g == Gcd(Abs(n), Abs(d))
             s == Sign(d)
         IN  [n |-> (s * n) \div g, d |-> (s * d) \div g]

Num(i) == [n |-> i, d |-> 1]

IsNaN(a) == a.d = 0 /\ a.n = 0

FNeg(a) == [n |-> -a.n, d |-> a.d]

FAdd(a, b) ==
    IF IsNaN(a) \/ IsNaN(b) THEN Frac(0, 0)
    ELSE IF a.d = 0 /\ b.d = 0 THEN (IF a.n = b.n THEN a ELSE Frac(0, 0))
    ELSE IF a.d = 0 THEN a
    ELSE IF b.d = 0 THEN b
    ELSE Frac(a.n * b.d + b.n * a.d, a.d * b.d)

FSub(a, b) == FAdd(a, FNeg(b))

FMul(a, b) ==
    IF IsNaN(a) \/ IsNaN(b) THEN Frac(0, 0)
    ELSE Frac(a.n * b.n, a.d * b.d)

FDiv(a, b) ==
    IF IsNaN(a) \/ IsNaN(b) THEN Frac(0, 0)
    ELSE IF a.d = 0 /\ b.d = 0 THEN Frac(0, 0)
    ELSE IF b.n = 0 THEN Frac(a.n, 0)
    ELSE Frac(a.n * b.d * Sign(b.n), a.d * Abs(b.n))

-----------------------------------------------------------------------------
(* units.rs: UnitDefinitions.  A category is [name, units]; units is the   *)
(* enumeration of its (key, UnitDefinition) pairs; derived is <<>> (None)  *)
(* or <<parts>> (Some), parts being derived_expr.split_whitespace().       *)

Unit(key, factor, derived) == [key |-> key, factor |-> factor, derived |-> derived]

None == <<>>

Some(x) == <<x>>

NoError == [kind |-> "", a |-> "", b |-> <<>>, c |-> ""]

DuplicatedUnit(key, category) ==
    [kind |-> "DuplicatedUnit", a |-> key, b |-> <<>>, c |-> category]

UnitNotFound(key, expr, category) ==
    [kind |-> "UnitNotFound", a |-> key, b |-> expr, c |-> category]

InvalidDerivedExpression(expr) ==
    [kind |-> "InvalidDerivedExpression", a |-> "", b |-> expr, c |-> ""]

NoUnitDefined(category) ==
    [kind |-> "NoUnitDefined", a |-> "", b |-> <<>>, c |-> category]

\* the (category, unit) pairs in the order categories.iter() / units.iter() visit them
RECURSIVE AllEntries(_)
AllEntries(cats) ==
    IF cats = <<>> THEN <<>>
    ELSE [i \in 1..Len(Head(cats).units) |->
             [category |-> Head(cats).name, unit |-> Head(cats).units[i]]]
         \o AllEntries(Tail(cats))

\* HashMap::insert
Insert(map, k, v) == (k :> v) @@ map

EmptyMap == [x \in {} |-> x]

\* first pass: collect all units, failing on the first key seen twice
RECURSIVE CollectUnits(_, _)
CollectUnits(entries, all_units) ==
    IF entries = <<>> THEN [ok |-> TRUE, all_units |-> all_units, err |-> NoError]
    ELSE LET e == Head(entries) IN
         IF e.unit.key \in all_units
         THEN [ok |-> FALSE, all_units |-> all_units,
               err |-> DuplicatedUnit(e.unit.key, e.category)]
         ELSE Bind(all_units \cup {e.unit.key},
                   LAMBDA inserted : CollectUnits(Tail(entries), inserted))

\* the mappings one operation "current_unit op next_unit = result_unit" adds
AddMappings(map, current_unit, op, next_unit, result_unit) ==
    IF op = "*"
    THEN Insert(Insert(Insert(Insert(map,
             <<current_unit, "*", next_unit>>, result_unit),
             <<next_unit, "*", current_unit>>, result_unit),
             <<result_unit, "/", current_unit>>, next_unit),
             <<result_unit, "/", next_unit>>, current_unit)
    ELSE Insert(Insert(Insert(map,
             <<current_unit, "/", next_unit>>, result_unit),
             <<current_unit, "/", result_unit>>, next_unit),
             <<result_unit, "*", next_unit>>, current_unit)

\* the while loop without `current_unit = result_unit`: every step is taken from
\* the first unit of the expression
RECURSIVE DerivedLoopNoFold(_, _, _, _, _, _, _)
DerivedLoopNoFold(map, all_units, parts, i, current_unit, unit, category) ==
    IF ~(i < Len(parts)) THEN [ok |-> TRUE, map |-> map, err |-> NoError]
    ELSE LET op == parts[i]
             next_unit == parts[i + 1]
             key == <<current_unit, op, next_unit>>
         IN
         IF op # "*" /\ op # "/"
         THEN [ok |-> FALSE, map |-> map, err |-> InvalidDerivedExpression(parts)]
         ELSE IF next_unit \notin all_units
         THEN [ok |-> FALSE, map |-> map,
               err |-> UnitNotFound(next_unit, parts, category)]
         ELSE IF i # Len(parts) - 1 /\ key \notin DOMAIN map
         THEN [ok |-> FALSE, map |-> map,
               err |-> InvalidDerivedExpression(
                          <<"Cannot find intermediate unit for:", current_unit, op, next_unit>>)]
         ELSE Bind(IF i = Len(parts) - 1 THEN unit ELSE map[key], LAMBDA result_unit :
                  Bind(AddMappings(map, current_unit, op, next_unit, result_unit),
                       LAMBDA added : DerivedLoopNoFold(added, all_units, parts, i + 2,
                                                        current_unit, unit, category)))

\* the while loop over the operators of one derived expression (i is 1-based:
\* parts[i] is the operator, parts[i + 1] the next unit)
RECURSIVE DerivedLoop(_, _, _, _, _, _, _)
DerivedLoop(map, all_units, parts, i, current_unit, unit, category) ==
    IF ~(i < Len(parts)) THEN [ok |-> TRUE, map |-> map, err |-> NoError]
    ELSE LET op == parts[i]
             next_unit == parts[i + 1]
             key == <<current_unit, op, next_unit>>
         IN
         IF op # "*" /\ op # "/"
         THEN [ok |-> FALSE, map |-> map, err |-> InvalidDerivedExpression(parts)]
         ELSE IF next_unit \notin all_units
         THEN [ok |-> FALSE, map |-> map,
               err |-> UnitNotFound(next_unit, parts, category)]
         ELSE IF i # Len(parts) - 1 /\ key \notin DOMAIN map
         THEN [ok |-> FALSE, map |-> map,
               err |-> InvalidDerivedExpression(
                          <<"Cannot find intermediate unit for:", current_unit, op, next_unit>>)]
         ELSE Bind(IF i = Len(parts) - 1 THEN unit ELSE map[key], LAMBDA result_unit :
                  Bind(AddMappings(map, current_unit, op, next_unit, result_unit),
                       LAMBDA added : DerivedLoop(added, all_units, parts, i + 2,
                                                  result_unit, unit, category)))

\* the second pass skipping an expression whose token count is even or below 3
RECURSIVE ProcessDerivedSkip(_, _, _)
ProcessDerivedSkip(entries, all_units, map) ==
    IF entries = <<>> THEN [ok |-> TRUE, map |-> map, err |-> NoError]
    ELSE LET e == Head(entries) IN
         IF e.unit.derived = None THEN ProcessDerivedSkip(Tail(entries), all_units, map)
         ELSE LET parts == e.unit.derived[1] IN
              IF ~(Len(parts) >= 3 /\ Len(parts) % 2 = 1)
              THEN ProcessDerivedSkip(Tail(entries), all_units, map)
              ELSE IF parts[1] \notin all_units
              THEN [ok |-> FALSE, map |-> map,
                    err |-> UnitNotFound(parts[1], parts, e.category)]
              ELSE Bind(DerivedLoop(map, all_units, parts, 2, parts[1],
                                    e.unit.key, e.category),
                        LAMBDA r : IF r.ok
                                   THEN ProcessDerivedSkip(Tail(entries), all_units, r.map)
                                   ELSE r)

\* second pass: process derived units
RECURSIVE ProcessDerived(_, _, _)
ProcessDerived(entries, all_units, map) ==
    IF entries = <<>> THEN [ok |-> TRUE, map |-> map, err |-> NoError]
    ELSE LET e == Head(entries) IN
         IF e.unit.derived = None THEN ProcessDerived(Tail(entries), all_units, map)
         ELSE LET parts == e.unit.derived[1] IN
              IF ~(Len(parts) >= 3 /\ Len(parts) % 2 = 1)
              THEN [ok |-> FALSE, map |-> map, err |-> InvalidDerivedExpression(parts)]
              ELSE IF parts[1] \notin all_units
              THEN [ok |-> FALSE, map |-> map,
                    err |-> UnitNotFound(parts[1], parts, e.category)]
              ELSE Bind(DerivedLoop(map, all_units, parts, 2, parts[1],
                                    e.unit.key, e.category),
                        LAMBDA r : IF r.ok
                                   THEN ProcessDerived(Tail(entries), all_units, r.map)
                                   ELSE r)

construct_unit_translation_map(defs) ==
    Bind(CollectUnits(AllEntries(defs), {}), LAMBDA c :
        IF ~c.ok THEN [ok |-> FALSE, map |-> EmptyMap, err |-> c.err]
        ELSE ProcessDerived(AllEntries(defs), c.all_units, EmptyMap))

RECURSIVE construct_base_units_map_from(_, _)
construct_base_units_map_from(cats, base_units_map) ==
    IF cats = <<>> THEN [ok |-> TRUE, map |-> base_units_map, err |-> NoError]
    ELSE LET units == Head(cats).units IN
         IF units = <<>>
         THEN [ok |-> FALSE, map |-> base_units_map, err |-> NoUnitDefined(Head(cats).name)]
         ELSE LET base_unit == units[1].key
                  InsertUnits[i \in 0..Len(units)] ==
                      IF i = 0 THEN base_units_map
                      ELSE Insert(InsertUnits[i - 1], units[i].key,
                                  <<units[i].factor, base_unit>>)
              IN  Bind(InsertUnits[Len(units)],
                       LAMBDA inserted : construct_base_units_map_from(Tail(cats), inserted))

construct_base_units_map(defs) == construct_base_units_map_from(defs, EmptyMap)

\* UnitTable::new: the derived map first, then the base map; either error aborts
UnitTableNew(defs) ==
    Bind(construct_unit_translation_map(defs), LAMBDA d :
        IF ~d.ok THEN [ok |-> FALSE, derived_units_map |-> EmptyMap,
                       base_units_map |-> EmptyMap, err |-> d.err]
        ELSE Bind(construct_base_units_map(defs), LAMBDA b :
            IF ~b.ok THEN [ok |-> FALSE, derived_units_map |-> EmptyMap,
                           base_units_map |-> EmptyMap, err |-> b.err]
            ELSE [ok |-> TRUE, derived_units_map |-> d.map,
                  base_units_map |-> b.map, err |-> NoError]))

-----------------------------------------------------------------------------
(* interpretor.rs: the parser.  A command is the sequence of its tokens.   *)

Symbols == {"+", "-", "*", "/", "(", ")", "=", ">>"}

\* text::int(10): the decimal integers the commands use
IntVal == [t \in {"0", "1", "2", "3", "4", "5", "6"} |->
              CASE t = "0" -> 0 [] t = "1" -> 1 [] t = "2" -> 2 [] t = "3" -> 3
                [] t = "4" -> 4 [] t = "5" -> 5 [] t = "6" -> 6]

IsInt(t) == t \in DOMAIN IntVal

\* ident: text::ascii::ident().or(just("$")).padded()
IsIdent(t) == t \notin Symbols /\ ~IsInt(t)

ParseFail == [ok |-> FALSE, e |-> <<>>, pos |-> 0]

Parsed(e, pos) == [ok |-> TRUE, e |-> e, pos |-> pos]

At(toks, i) == IF i <= Len(toks) THEN toks[i] ELSE ""

\* the binary operators of one precedence level: the token and the Expr variant
ProductOps == [t \in {"*", "/"} |-> IF t = "*" THEN "Mul" ELSE "Div"]

SumOps == [t \in {"+", "-"} |-> IF t = "+" THEN "Add" ELSE "Sub"]

RECURSIVE ParseExpr(_, _)
RECURSIVE ParseAtom(_, _)
RECURSIVE ParseUnary(_, _)
RECURSIVE ParseProductRest(_, _, _)
RECURSIVE ParseSumRest(_, _, _)

\* int = text::int(10).then(ident.or_not())
ParseInt(toks, i) ==
    IF ~(i <= Len(toks) /\ IsInt(toks[i])) THEN ParseFail
    ELSE IF i + 1 <= Len(toks) /\ IsIdent(toks[i + 1])
         THEN Parsed(<<"Num", Num(IntVal[toks[i]]), toks[i + 1]>>, i + 2)
         ELSE Parsed(<<"Num", Num(IntVal[toks[i]]), "">>, i + 1)

\* atom = int | '(' expr ')' | ident
ParseAtom(toks, i) ==
    Bind(ParseInt(toks, i), LAMBDA n :
        IF n.ok THEN n
        ELSE Bind(IF At(toks, i) = "(" THEN ParseExpr(toks, i + 1) ELSE ParseFail, LAMBDA p :
            IF p.ok /\ At(toks, p.pos) = ")" THEN Parsed(p.e, p.pos + 1)
            ELSE IF i <= Len(toks) /\ IsIdent(toks[i])
                 THEN Parsed(<<"Var", toks[i]>>, i + 1)
                 ELSE ParseFail))

\* unary = '-'* atom, folded from the right
ParseUnary(toks, i) ==
    IF At(toks, i) = "-"
    THEN Bind(ParseUnary(toks, i + 1), LAMBDA r :
             IF r.ok THEN Parsed(<<"Neg", r.e>>, r.pos) ELSE ParseFail)
    ELSE ParseAtom(toks, i)

\* (('*' | '/') unary)*, folded from the left onto lhs
ParseProductRest(toks, lhs, i) ==
    IF At(toks, i) \in DOMAIN ProductOps
    THEN Bind(ParseUnary(toks, i + 1), LAMBDA r :
             IF r.ok
             THEN ParseProductRest(toks, <<ProductOps[toks[i]], lhs, r.e>>, r.pos)
             ELSE Parsed(lhs, i))
    ELSE Parsed(lhs, i)

ParseProduct(toks, i) ==
    Bind(ParseUnary(toks, i), LAMBDA l :
        IF l.ok THEN ParseProductRest(toks, l.e, l.pos) ELSE ParseFail)

\* (('+' | '-') product)*, folded from the left onto lhs
ParseSumRest(toks, lhs, i) ==
    IF At(toks, i) \in DOMAIN SumOps
    THEN Bind(ParseProduct(toks, i + 1), LAMBDA r :
             IF r.ok
             THEN ParseSumRest(toks, <<SumOps[toks[i]], lhs, r.e>>, r.pos)
             ELSE Parsed(lhs, i))
    ELSE Parsed(lhs, i)

ParseSum(toks, i) ==
    Bind(ParseProduct(toks, i), LAMBDA l :
        IF l.ok THEN ParseSumRest(toks, l.e, l.pos) ELSE ParseFail)

ParseExpr(toks, i) == ParseSum(toks, i)

\* assign = ident '=' expr
ParseAssign(toks) ==
    IF Len(toks) >= 2 /\ IsIdent(toks[1]) /\ toks[2] = "="
    THEN Bind(ParseExpr(toks, 3), LAMBDA r :
             IF r.ok THEN Parsed(<<"Assign", toks[1], r.e>>, r.pos) ELSE ParseFail)
    ELSE ParseFail

\* to = expr ('>>' ident)?
ParseTo(toks) ==
    Bind(ParseExpr(toks, 1), LAMBDA r :
        IF ~r.ok THEN ParseFail
        ELSE IF At(toks, r.pos) = ">>" /\ r.pos + 1 <= Len(toks) /\ IsIdent(toks[r.pos + 1])
             THEN Parsed(<<"To", r.e, Some(toks[r.pos + 1])>>, r.pos + 2)
             ELSE Parsed(<<"To", r.e, None>>, r.pos))

\* parser().parse(command): assign.or(to), which must consume the whole input
Parse(toks) ==
    Bind(ParseAssign(toks), LAMBDA a :
        Bind(IF a.ok THEN a ELSE ParseTo(toks), LAMBDA r :
            IF r.ok /\ r.pos = Len(toks) + 1 THEN r ELSE ParseFail))

-----------------------------------------------------------------------------
(* interpretor.rs: eval_expr.  A result is [ok, val, err]: val is the      *)
(* (f64, String) pair, err the error message as [kind, a, op, b].          *)

NoVal == <<Num(0), "">>

NoErr == [kind |-> "", a |-> "", op |-> "", b |-> ""]

Ok(val) == [ok |-> TRUE, val |-> val, err |-> NoErr]

Err(e) == [ok |-> FALSE, val |-> NoVal, err |-> e]

\* "Unknown unit: {:?}" and "Unknown unit {}"
UnknownUnit(u) == [kind |-> "Unknown unit", a |-> u, op |-> "", b |-> ""]

\* "Cannot evaluate {:?} {} {:?}"
IncompatibleUnits(unit_a, op, unit_b) ==
    [kind |-> "Cannot evaluate", a |-> unit_a, op |-> op, b |-> unit_b]

\* "Cannot find variable {name} in scope"
UnknownVariable(name) == [kind |-> "Cannot find variable", a |-> name, op |-> "", b |-> ""]

\* "Cannot assign to reserved variable $"
ReservedVariableAssignment ==
    [kind |-> "Cannot assign to reserved variable", a |-> "$", op |-> "", b |-> ""]

\* "Cannot convert to unit {}"
UnconvertibleUnit(u) == [kind |-> "Cannot convert to unit", a |-> u, op |-> "", b |-> ""]

\* the parser's error list
ParseError == [kind |-> "ParseError", a |-> "", op |-> "", b |-> ""]

\* a variant of EvalNum that tags the number with the base unit without scaling it
EvalNumUnscaled(num, unit_str, table) ==
    IF unit_str \in DOMAIN table.base_units_map
    THEN Ok(<<num, table.base_units_map[unit_str][2]>>)
    ELSE Err(UnknownUnit(unit_str))

\* Expr::Num
EvalNum(num, unit_str, table) ==
    IF unit_str \in DOMAIN table.base_units_map
    THEN LET factor == table.base_units_map[unit_str][1]
             base_unit == table.base_units_map[unit_str][2]
         IN  Ok(<<FMul(num, factor), base_unit>>)
    ELSE Err(UnknownUnit(unit_str))

\* Expr::Neg, given the operand's value
EvalNeg(a) == Ok(<<FNeg(a[1]), a[2]>>)

\* a variant of EvalAddSub that lets a dimensionless operand take the other's unit
EvalAddSubCoerce(op, a, b) ==
    LET unit == IF a[2] = "" THEN b[2] ELSE a[2]
    IN  IF a[2] # b[2] /\ a[2] # "" /\ b[2] # "" THEN Err(IncompatibleUnits(a[2], op, b[2]))
        ELSE Ok(<<IF op = "+" THEN FAdd(a[1], b[1]) ELSE FSub(a[1], b[1]), unit>>)

\* Expr::Add | Expr::Sub, given the operands' values; op is "+" or "-"
EvalAddSub(op, a, b) ==
    LET val_a == a[1]
        unit_a == a[2]
        val_b == b[1]
        unit_b == b[2]
    IN  IF unit_a # unit_b THEN Err(IncompatibleUnits(unit_a, op, unit_b))
        ELSE Ok(<<IF op = "+" THEN FAdd(val_a, val_b) ELSE FSub(val_a, val_b), unit_b>>)

\* a variant of EvalMulDiv whose scalar rule covers a dimensionless right side only
EvalMulDivRightScalar(op, a, b, table) ==
    LET key == <<a[2], op, b[2]>>
        found == key \in DOMAIN table.derived_units_map
    IN  IF ~found /\ b[2] # "" THEN Err(IncompatibleUnits(a[2], op, b[2]))
        ELSE Ok(<<IF op = "*" THEN FMul(a[1], b[1]) ELSE FDiv(a[1], b[1]),
                  IF found THEN table.derived_units_map[key] ELSE a[2]>>)

\* Expr::Mul | Expr::Div, given the operands' values; op is "*" or "/"
EvalMulDiv(op, a, b, table) ==
    LET val_a == a[1]
        unit_a == a[2]
        val_b == b[1]
        unit_b == b[2]
        key == <<unit_a, op, unit_b>>
        found == key \in DOMAIN table.derived_units_map
        new_unit == IF found THEN table.derived_units_map[key]
                    ELSE IF unit_a = "" THEN unit_b
                    ELSE unit_a
    IN  IF ~found /\ unit_a # "" /\ unit_b # ""
        THEN Err(IncompatibleUnits(unit_a, op, unit_b))
        ELSE Ok(<<IF op = "*" THEN FMul(val_a, val_b) ELSE FDiv(val_a, val_b), new_unit>>)

\* Expr::Var
EvalVar(name, env) ==
    IF name \in DOMAIN env THEN Ok(env[name]) ELSE Err(UnknownVariable(name))

\* a variant of EvalTo that labels the converted value with the base unit
EvalToBaseLabel(v, unit, table) ==
    IF unit = None THEN Ok(v)
    ELSE IF unit[1] \notin DOMAIN table.base_units_map THEN Err(UnknownUnit(unit[1]))
    ELSE IF v[2] # table.base_units_map[unit[1]][2] THEN Err(UnconvertibleUnit(unit[1]))
    ELSE Ok(<<FDiv(v[1], table.base_units_map[unit[1]][1]), table.base_units_map[unit[1]][2]>>)

\* Expr::To, given the operand's value; unit is None or Some(unit_str)
EvalTo(v, unit, table) ==
    LET val == v[1]
        cur_unit == v[2]
    IN  IF unit = None THEN Ok(<<val, cur_unit>>)
        ELSE LET unit_str == unit[1] IN
             IF unit_str \in DOMAIN table.base_units_map
             THEN LET factor == table.base_units_map[unit_str][1]
                      base_unit == table.base_units_map[unit_str][2]
                  IN  IF cur_unit # base_unit THEN Err(UnconvertibleUnit(unit_str))
                      ELSE Ok(<<FDiv(val, factor), unit_str>>)
             ELSE Err(UnknownUnit(unit_str))

\* a variant of AssignGuard that reserves no name
AssignGuardNone(name) == FALSE

\* Expr::Assign: the reserved-name check that precedes the evaluation of rhs
AssignGuard(name) == name = "$"

\* a variant of AssignStore that returns the value without binding the name
AssignStoreSkip(env, name, rhs) == env

\* Expr::Assign: self.vars.insert(name, rhs) once rhs has evaluated
AssignStore(env, name, rhs) == Insert(env, name, rhs)

\* a result together with self.vars after the evaluation
With(r, env) == [ok |-> r.ok, val |-> r.val, err |-> r.err, vars |-> env]

\* eval_expr(&mut self, expr): the result together with self.vars afterwards
RECURSIVE EvalExpr(_, _, _)
EvalExpr(expr, table, env) ==
    LET tag == expr[1] IN
    CASE tag = "Num" -> With(EvalNum(expr[2], expr[3], table), env)
      [] tag = "Neg" ->
            Bind(EvalExpr(expr[2], table, env), LAMBDA a :
                IF ~a.ok THEN a ELSE With(EvalNeg(a.val), a.vars))
      [] tag \in {"Add", "Sub", "Mul", "Div"} ->
            Bind(EvalExpr(expr[2], table, env), LAMBDA a :
                IF ~a.ok THEN a
                ELSE Bind(EvalExpr(expr[3], table, a.vars), LAMBDA b :
                    IF ~b.ok THEN b
                    ELSE IF tag \in {"Add", "Sub"}
                    THEN With(EvalAddSub(IF tag = "Add" THEN "+" ELSE "-", a.val, b.val),
                              b.vars)
                    ELSE With(EvalMulDiv(IF tag = "Mul" THEN "*" ELSE "/", a.val, b.val,
                                         table), b.vars)))
      [] tag = "Var" -> With(EvalVar(expr[2], env), env)
      [] tag = "Assign" ->
            IF AssignGuard(expr[2]) THEN With(Err(ReservedVariableAssignment), env)
            ELSE Bind(EvalExpr(expr[3], table, env), LAMBDA rhs :
                     IF ~rhs.ok THEN rhs
                     ELSE With(Ok(rhs.val), AssignStore(rhs.vars, expr[2], rhs.val)))
      [] tag = "To" ->
            Bind(EvalExpr(expr[2], table, env), LAMBDA v :
                IF ~v.ok THEN v ELSE With(EvalTo(v.val, expr[3], table), v.vars))

\* a variant of StoreResult that keeps no binding but "$"
StoreResultAlone(env, result) == Insert(EmptyMap, "$", result)

\* a variant of StoreResult that keeps the first result only
StoreResultOnce(env, result) == IF "$" \in DOMAIN env THEN env ELSE Insert(env, "$", result)

\* execute_command: what the environment holds after an evaluation that succeeded
StoreResult(env, result) == Insert(env, "$", result)

Remove(map, k) == [x \in DOMAIN map \ {k} |-> map[x]]

\* a variant of execute_command that resets "$" when the evaluation fails
execute_command_reset(command, table, env) ==
    Bind(Parse(command), LAMBDA parsed :
        IF ~parsed.ok THEN With(Err(ParseError), env)
        ELSE Bind(EvalExpr(parsed.e, table, env), LAMBDA result :
            IF ~result.ok THEN With(result, Insert(result.vars, "$", NoVal))
            ELSE With(result, Insert(result.vars, "$", result.val))))

\* a variant of execute_command that unsets "$" when the command does not parse
execute_command_unset(command, table, env) ==
    Bind(Parse(command), LAMBDA parsed :
        IF ~parsed.ok THEN With(Err(ParseError), Remove(env, "$"))
        ELSE Bind(EvalExpr(parsed.e, table, env), LAMBDA result :
            IF ~result.ok THEN result
            ELSE With(result, Insert(result.vars, "$", result.val))))

\* execute_command(&mut self, command): the result together with self.vars afterwards
execute_command(command, table, env) ==
    Bind(Parse(command), LAMBDA parsed :
        IF ~parsed.ok THEN With(Err(ParseError), env)
        ELSE Bind(EvalExpr(parsed.e, table, env), LAMBDA result :
            IF ~result.ok THEN result
            ELSE With(result, StoreResult(result.vars, result.val))))

-----------------------------------------------------------------------------
(* The sessions explored: the definitions a session is built from and the  *)
(* commands it is given.                                                   *)

Plain(key) == Unit(key, Num(1), None)

Category(name, units) == [name |-> name, units |-> units]

\* UnitDefinitions::default()
NoDefinitions == <<>>

\* the definitions of the interpreter's tests: two categories, cm = 0.01 m
TestDefinitions ==
    << Category("length", <<Plain("m"), Unit("cm", Frac(1, 100), None)>>),
       Category("time", <<Plain("sec")>>) >>

\* derived units, and a category whose unit key is the empty string
FullDefinitions ==
    << Category("length", <<Plain("m"), Unit("cm", Frac(1, 100), None)>>),
       Category("time", <<Plain("sec")>>),
       Category("area", <<Unit("m2", Num(1), Some(<<"m", "*", "m">>))>>),
       Category("speed", <<Unit("mps", Num(1), Some(<<"m", "/", "sec">>))>>),
       Category("scalar", <<Plain("")>>) >>

\* a unit key declared in two categories
DuplicateDefinitions ==
    << Category("length", <<Plain("m")>>),
       Category("area", <<Plain("m")>>) >>

DefSets == {NoDefinitions, TestDefinitions, FullDefinitions, DuplicateDefinitions}

Commands ==
    { <<"1">>,
      <<"1", "+", "2", "*", "3">>,
      <<"2", "*", "3", "+", "1">>,
      <<"6", "-", "2", "-", "1">>,
      <<"6", "/", "2", "/", "3">>,
      <<"-", "1", "+", "2">>,
      <<"(", "1", "+", "2", ")", "*", "3">>,
      <<"6", "-", "(", "2", "-", "1", ")">>,
      <<"1", "m", "+", "2", "cm">>,
      <<"1", "m", "+", "2", "sec">>,
      <<"2", "m", "*", "3", "sec">>,
      <<"2", "m", "*", "3", "m">>,
      <<"6", "m", "/", "2", "sec">>,
      <<"2", "*", "3", "m">>,
      <<"3", "m", "/", "2">>,
      <<"2", "/", "3", "m">>,
      <<"4", "/", "2">>,
      <<"1", "m", "+", "2">>,
      <<"2", "-", "1", "m">>,
      <<"1", "-", "1">>,
      <<"5", "foo">>,
      <<"x", "=", "5", "m">>,
      <<"x", "=", "2", "cm">>,
      <<"x", "=", "3">>,
      <<"y", "=", "x", "*", "x">>,
      <<"x", "=", "z">>,
      <<"x", "=", "1", "m", "+", "1", "sec">>,
      <<"x">>,
      <<"-", "x">>,
      <<"x", "+", "3", "sec">>,
      <<"x", "+", "2">>,
      <<"x", "-", "y">>,
      <<"x", "*", "y">>,
      <<"$">>,
      <<"$", "*", "$">>,
      <<"$", "+", "x">>,
      <<"1", "/", "$">>,
      <<"$", "=", "1">>,
      <<"$", "=", "1", "m">>,
      <<"$", "=", "5", "foo">>,
      <<"$", "=", "z">>,
      <<"1", "m", ">>", "cm">>,
      <<"1", "m", ">>", "sec">>,
      <<"1", "m", ">>", "second">>,
      <<"2", "cm", ">>", "m">>,
      <<"x", ">>", "cm">>,
      <<"$", ">>", "m">>,
      <<"1", ">>", "m">>,
      <<"z", ">>", "cm">>,
      <<"(", "1", "m", "+", "x", ")", "*", "2">>,
      <<"1", "+", "2", "*">>,
      <<"x", "=">>,
      <<"(", "1", "m">>,
      <<"x", "=", "1", "m", ">>", "cm">>,
      <<"(", "x", "=", "1", "m", ")", "+", "z">>,
      <<>> }

-----------------------------------------------------------------------------

\* Interpretor::new(unit_definitions): the registry is built, vars is empty
Init ==
    /\ definitions \in DefSets
    /\ unit_table = UnitTableNew(definitions)
    /\ vars = EmptyMap
    /\ last = [cmd |-> <<>>, ok |-> FALSE, val |-> NoVal, err |-> NoErr, before |-> EmptyMap]
    /\ assigned = EmptyMap
    /\ ncmds = 0
    /\ sessions = <<>>

\* the name a command assigns to, if it parses as an assignment
AssignedName(command) ==
    Bind(Parse(command), LAMBDA parsed :
        IF parsed.ok /\ parsed.e[1] = "Assign" THEN Some(parsed.e[2]) ELSE None)

\* one call of execute_command on a session whose construction succeeded
Execute(command) ==
    /\ unit_table.ok
    /\ ncmds < MaxCmds
    /\ \E r \in {execute_command(command, unit_table, vars)} :
       /\ vars' = r.vars
       /\ last' = [cmd |-> command, ok |-> r.ok, val |-> r.val, err |-> r.err,
                   before |-> vars]
       /\ assigned' = IF r.ok /\ AssignedName(command) # None
                      THEN Insert(assigned, AssignedName(command)[1], r.val)
                      ELSE assigned
    /\ ncmds' = ncmds + 1
    /\ UNCHANGED <<definitions, unit_table, sessions>>

Next == \E command \in Commands : Execute(command)

Spec == Init /\ [][Next]_allvars

-----------------------------------------------------------------------------
(* Properties of a session.  `last` describes the latest call once a       *)
(* command has been executed.                                              *)

LastDone == ncmds > 0

LastParsed == Parse(last.cmd)

Bound(env, name) == name \in DOMAIN env

\* the binding of name is the same in both environments
SameBinding(env1, env2, name) ==
    /\ Bound(env1, name) <=> Bound(env2, name)
    /\ Bound(env1, name) => env1[name] = env2[name]

\* C1: when execute_command returns an error (a parse error or an evaluation
\* error) the environment is the one before the call: no binding changed, "$"
\* included, and none was added.
C1_ErrorLeavesEnvironment ==
    LastDone /\ ~last.ok => vars = last.before

\* C1: an assignment to x failed during the evaluation of its right-hand side,
\* on an environment that binds "$" and x.
C1_Witness ==
    /\ LastDone /\ ~last.ok
    /\ last.cmd = <<"x", "=", "1", "m", "+", "1", "sec">>
    /\ last.err = IncompatibleUnits("m", "+", "sec")
    /\ Bound(last.before, "$") /\ Bound(last.before, "x")

\* C2: after a successful execute_command returning (v, u), "$" is bound to
\* exactly (v, u), whatever it was bound to before, for assignments, conversions
\* and plain expressions alike.
C2_LastResultStored ==
    LastDone /\ last.ok => Bound(vars, "$") /\ vars["$"] = last.val

\* C2: a successful conversion overwrote an earlier, different binding of "$".
C2_Witness ==
    /\ LastDone /\ last.ok
    /\ LastParsed.e[1] = "To" /\ LastParsed.e[3] # None
    /\ Bound(last.before, "$") /\ last.before["$"] # last.val
    /\ vars["$"] = last.val

\* C3: after a successful assignment to x returning (v, u), x stays bound to
\* (v, u) through all later commands, failing or not, until the next successful
\* assignment to x, and a command that references x observes (v, u); for the
\* literal `x = 5 m` the pair is (5 * factor(m), base unit of m).
C3_SessionPersistence ==
    /\ \A name \in DOMAIN assigned : EvalVar(name, vars) = Ok(assigned[name])
    /\ LastDone /\ last.cmd = <<"x">> /\ Bound(assigned, "x") =>
           last.ok /\ last.val = assigned["x"]
    /\ LastDone /\ last.cmd = <<"x", "=", "5", "m">> /\ last.ok =>
           /\ last.val = <<FMul(Num(5), unit_table.base_units_map["m"][1]),
                           unit_table.base_units_map["m"][2]>>
           /\ assigned["x"] = last.val

\* C3: `x` is read back two commands after its assignment, the command in
\* between having changed "$".
C3_Witness ==
    /\ ncmds = 3 /\ last.cmd = <<"x">> /\ last.ok
    /\ Bound(assigned, "x") /\ last.val = assigned["x"]
    /\ Bound(last.before, "$") /\ last.before["$"] # assigned["x"]

\* C4: an assignment to the reserved name "$" fails with
\* ReservedVariableAssignment whatever its right-hand side is, also when the
\* right-hand side would fail to evaluate, and leaves the binding of "$" alone.
C4_ReservedAssignment ==
    LastDone /\ LastParsed.ok /\ LastParsed.e[1] = "Assign" /\ LastParsed.e[2] = "$" =>
        /\ ~last.ok
        /\ last.err = ReservedVariableAssignment
        /\ SameBinding(vars, last.before, "$")

\* C4: `$ = z` was rejected although z is unbound, "$" being bound.
C4_Witness ==
    /\ LastDone /\ last.cmd = <<"$", "=", "z">>
    /\ ~EvalExpr(LastParsed.e[3], unit_table, last.before).ok
    /\ last.err = ReservedVariableAssignment
    /\ Bound(vars, "$")

\* C5: once a command has succeeded "$" is bound and stays bound; no command
\* removes a binding, so the set of bound names only grows.
C5_BindingsOnlyGrow ==
    /\ [](LastDone /\ last.ok => Bound(vars, "$"))
    /\ [][DOMAIN vars \subseteq DOMAIN vars']_allvars

\* C5: the third command did not parse, after a successful assignment to x,
\* and "$" and x are still bound.
C5_Witness ==
    /\ ncmds = 3 /\ ~last.ok /\ last.err = ParseError
    /\ Bound(last.before, "$") /\ Bound(vars, "$") /\ Bound(vars, "x")

\* the expression of the latest command: the right-hand side of an assignment,
\* the operand of a conversion
LastTop == IF LastParsed.e[1] = "Assign" THEN LastParsed.e[3] ELSE LastParsed.e[2]

\* the latest command is `e` or `x = e` (x not reserved): its result is e's
LastPlain ==
    /\ LastDone /\ LastParsed.ok
    /\ \/ LastParsed.e[1] = "To" /\ LastParsed.e[3] = None
       \/ LastParsed.e[1] = "Assign" /\ LastParsed.e[2] # "$"

\* the value of a sub-expression of the latest command, in the environment the
\* command ran in
LastEval(e) == EvalExpr(e, unit_table, last.before)

\* C6: Add/Sub of operands (va, ua) and (vb, ub) fails with IncompatibleUnits
\* naming ua, the operator and ub when ua differs from ub, also when exactly one
\* of them is the empty unit, and yields (va + vb, ua) or (va - vb, ua) when they
\* are equal; an operand may be a variable bound by an earlier command.
C6_AddSubUnits ==
    LastPlain /\ LastTop[1] \in {"Add", "Sub"}
        /\ LastEval(LastTop[2]).ok /\ LastEval(LastTop[3]).ok =>
        LET a == LastEval(LastTop[2]).val
            b == LastEval(LastTop[3]).val
            op == IF LastTop[1] = "Add" THEN "+" ELSE "-"
        IN  IF a[2] # b[2]
            THEN ~last.ok /\ last.err = IncompatibleUnits(a[2], op, b[2])
            ELSE /\ last.ok
                 /\ last.val = <<IF op = "+" THEN FAdd(a[1], b[1]) ELSE FSub(a[1], b[1]),
                                 a[2]>>

\* C6: `x + 2` failed, x having been bound to a length by an earlier command and
\* 2 being dimensionless.
C6_Witness ==
    /\ LastDone /\ last.cmd = <<"x", "+", "2">>
    /\ Bound(last.before, "x") /\ last.before["x"][2] = "m"
    /\ LastEval(LastTop[3]).ok /\ LastEval(LastTop[3]).val[2] = ""
    /\ ~last.ok /\ last.err = IncompatibleUnits("m", "+", "")

C8_UnitlessLiteral ==
    LastPlain /\ LastTop[1] = "Num" /\ LastTop[3] = "" =>
        last.ok /\ last.val = <<LastTop[2], "">>

\* the entry of the definitions that declares unit key s
Declares(defs, s) ==
    {e \in {AllEntries(defs)[i] : i \in 1..Len(AllEntries(defs))} : e.unit.key = s}

\* the first unit key of the category that declares unit key s
BaseOf(defs, s) ==
    LET c == CHOOSE c \in {defs[i] : i \in 1..Len(defs)} :
                 \E i \in 1..Len(c.units) : c.units[i].key = s
    IN  c.units[1].key

\* the definitions declare a category whose base is m and where cm has factor 0.01
MetreBase(defs) ==
    \E i \in 1..Len(defs) :
        /\ Len(defs[i].units) >= 2
        /\ defs[i].units[1] = Unit("m", Num(1), None)
        /\ defs[i].units[2] = Unit("cm", Frac(1, 100), None)

\* C9: a literal with unit symbol s evaluates to (value * factor(s), base unit
\* key of s's category) when s is declared and fails with UnknownUnit(s)
\* otherwise; with m the base and cm of factor 0.01, `1 m + 2 cm` yields
\* (1.02, "m").
C9_LiteralNormalized ==
    /\ LastPlain /\ LastTop[1] = "Num" /\ LastTop[3] # "" =>
           LET s == LastTop[3] IN
           IF Declares(definitions, s) # {}
           THEN /\ last.ok
                /\ \E e \in Declares(definitions, s) :
                       last.val = <<FMul(LastTop[2], e.unit.factor), BaseOf(definitions, s)>>
           ELSE ~last.ok /\ last.err = UnknownUnit(s)
    /\ LastDone /\ last.cmd = <<"1", "m", "+", "2", "cm">> /\ MetreBase(definitions) =>
           last.ok /\ last.val = <<Frac(51, 50), "m">>

\* C9: `x = 2 cm` bound x to 0.02 m.
C9_Witness ==
    /\ LastDone /\ last.cmd = <<"x", "=", "2", "cm">>
    /\ last.ok /\ last.val = <<Frac(1, 50), "m">> /\ vars["x"] = last.val

\* C10: `e >> t` with e evaluating to (v, u) fails with UnknownUnit when t is no
\* key of baseUnits, fails with the cannot-convert error when baseUnits[t] =
\* (f, b) and b differs from u, and otherwise yields (v / f, t), labelled with t;
\* a command without `>>` returns the value of e.
C10_Conversion ==
    /\ LastDone /\ LastParsed.ok /\ LastParsed.e[1] = "To" /\ LastParsed.e[3] # None
           /\ LastEval(LastParsed.e[2]).ok =>
           LET t == LastParsed.e[3][1]
               v == LastEval(LastParsed.e[2]).val
               base == unit_table.base_units_map
           IN  IF t \notin DOMAIN base THEN ~last.ok /\ last.err = UnknownUnit(t)
               ELSE IF base[t][2] # v[2] THEN ~last.ok /\ last.err = UnconvertibleUnit(t)
               ELSE last.ok /\ last.val = <<FDiv(v[1], base[t][1]), t>>
    /\ LastDone /\ LastParsed.ok /\ LastParsed.e[1] = "To" /\ LastParsed.e[3] = None
           /\ LastEval(LastParsed.e[2]).ok =>
           last.ok /\ last.val = LastEval(LastParsed.e[2]).val

\* C10: `x >> cm` converted a length bound by an earlier command and labelled the
\* result cm, which is not a base unit.
C10_Witness ==
    /\ LastDone /\ last.cmd = <<"x", ">>", "cm">>
    /\ Bound(last.before, "x") /\ last.before["x"] = <<Num(5), "m">>
    /\ last.ok /\ last.val = <<Num(500), "cm">>
    /\ BaseOf(definitions, "cm") = "m"

\* C11: conversion round trip.  When "$" holds the result (w, X) of a conversion
\* `v U >> X` and the next command is `$ >> U`, with U and X units of the same
\* category, the command succeeds and returns the original value, w * f_X / f_U,
\* with unit label U (for `1 m >> cm` then `$ >> m`: (1, "m")).
C11_RoundTrip ==
    LastDone /\ LastParsed.ok /\ LastParsed.e[1] = "To"
        /\ LastParsed.e[2] = <<"Var", "$">> /\ LastParsed.e[3] # None
        /\ Bound(last.before, "$") =>
        LET U == LastParsed.e[3][1]
            w == last.before["$"][1]
            X == last.before["$"][2]
            base == unit_table.base_units_map
        IN  U \in DOMAIN base /\ X \in DOMAIN base /\ base[U][2] = base[X][2] =>
                /\ last.ok
                /\ last.val = <<FDiv(FMul(w, base[X][1]), base[U][1]), U>>

-----------------------------------------------------------------------------
(* Registry construction on its own.  UnitDefinitions.categories is a      *)
(* HashMap of HashMaps (units.rs): iter() visits the categories, and the   *)
(* units of a category, in an unspecified order, the same in every pass    *)
(* over one value.  `definitions` is the order of visit; declared          *)
(* definitions may be visited in any order.                                *)

\* the orders in which the elements of seq can be visited
PermsOf(seq) ==
    {[i \in 1..Len(seq) |-> seq[p[i]]] : p \in Permutations(1..Len(seq))}

\* the orders in which the units inside each category can be visited
RECURSIVE UnitOrders(_)
UnitOrders(cats) ==
    IF cats = <<>> THEN {<<>>}
    ELSE {<<Category(Head(cats).name, units)>> \o rest :
              units \in PermsOf(Head(cats).units), rest \in UnitOrders(Tail(cats))}

\* every enumeration of declared definitions
Enumerations(declared) == UNION {UnitOrders(cats) : cats \in PermsOf(declared)}

Derived(key, parts) == Unit(key, Num(1), Some(parts))

\* test_multiple_operators: m, m2 = m * m, m3 = m * m * m
ChainDefinitions ==
    << Category("length", <<Plain("m")>>),
       Category("area", <<Derived("m2", <<"m", "*", "m">>)>>),
       Category("volume", <<Derived("m3", <<"m", "*", "m", "*", "m">>)>>) >>

\* a chain of divisions: mps = m / sec, mps2 = m / sec / sec
ChainDivisionDefinitions ==
    << Category("length", <<Plain("m")>>),
       Category("time", <<Plain("sec")>>),
       Category("speed", <<Derived("mps", <<"m", "/", "sec">>)>>),
       Category("acceleration", <<Derived("mps2", <<"m", "/", "sec", "/", "sec">>)>>) >>

\* a category whose first declared unit has a factor other than 1
ScaledBaseDefinitions ==
    << Category("length", <<Unit("km", Num(1000), None), Plain("m")>>) >>

\* test_invalid_derived_expression: the operators "**" and "+"
InvalidOperatorDefinitions ==
    << Category("length", <<Plain("m")>>),
       Category("area", <<Derived("m2", <<"m", "**", "m">>)>>) >>

PlusOperatorDefinitions ==
    << Category("length", <<Plain("m")>>),
       Category("area", <<Derived("m2", <<"m", "+", "m">>)>>) >>

\* derived expressions of 1, 2 and 4 tokens
OneTokenDefinitions ==
    << Category("length", <<Plain("m")>>),
       Category("area", <<Derived("m2", <<"m">>)>>) >>

TwoTokenDefinitions ==
    << Category("length", <<Plain("m")>>),
       Category("area", <<Derived("m2", <<"m", "*">>)>>) >>

FourTokenDefinitions ==
    << Category("length", <<Plain("m")>>),
       Category("area", <<Derived("m2", <<"m", "*", "m", "*">>)>>) >>

\* test_undefined_unit_in_derived: x is no declared key
UndefinedUnitDefinitions ==
    << Category("area", <<Derived("m2", <<"x", "*", "x">>)>>) >>

\* an undeclared key before, and after, an operator that is not "*" or "/"
UndefinedThenOperatorDefinitions ==
    << Category("length", <<Plain("m")>>),
       Category("area", <<Derived("m2", <<"x", "**", "m">>)>>) >>

OperatorThenUndefinedDefinitions ==
    << Category("length", <<Plain("m")>>),
       Category("area", <<Derived("m2", <<"m", "**", "x">>)>>) >>

\* the second operator is "+"; the first product is declared by m2
LateOperatorDefinitions ==
    << Category("length", <<Plain("m")>>),
       Category("area", <<Derived("m2", <<"m", "*", "m">>)>>),
       Category("volume", <<Derived("m3", <<"m", "*", "m", "+", "m">>)>>) >>

\* a duplicated key together with an invalid derived expression
DuplicateAndInvalidDefinitions ==
    << Category("length", <<Plain("m")>>),
       Category("area", <<Derived("m", <<"m", "**", "m">>)>>) >>

\* a category without units
EmptyCategoryDefinitions ==
    << Category("length", <<Plain("m")>>),
       Category("time", <<>>) >>

Declared ==
    DefSets \cup
    { ChainDefinitions, ChainDivisionDefinitions, ScaledBaseDefinitions, InvalidOperatorDefinitions,
      PlusOperatorDefinitions, OneTokenDefinitions, TwoTokenDefinitions,
      FourTokenDefinitions, UndefinedUnitDefinitions, UndefinedThenOperatorDefinitions,
      OperatorThenUndefinedDefinitions, LateOperatorDefinitions,
      DuplicateAndInvalidDefinitions, EmptyCategoryDefinitions }

\* before UnitTable::new has run
NotBuilt ==
    [ok |-> FALSE, derived_units_map |-> EmptyMap, base_units_map |-> EmptyMap,
     err |-> NoError]

InitRegistry ==
    /\ definitions \in UNION {Enumerations(declared) : declared \in Declared}
    /\ unit_table = NotBuilt
    /\ vars = EmptyMap
    /\ last = [cmd |-> <<>>, ok |-> FALSE, val |-> NoVal, err |-> NoErr, before |-> EmptyMap]
    /\ assigned = EmptyMap
    /\ ncmds = 0
    /\ sessions = <<>>

\* UnitTable::new(&definitions)
Build ==
    /\ unit_table = NotBuilt
    /\ unit_table' = UnitTableNew(definitions)
    /\ UNCHANGED <<definitions, vars, last, assigned, ncmds, sessions>>

NextRegistry == Build

SpecRegistry == InitRegistry /\ [][NextRegistry]_allvars

Built == unit_table # NotBuilt

\* the declared definitions `definitions` enumerates
Enumerates(declared) == definitions \in Enumerations(declared)

\* C12: in every successfully built registry, for every category the entry of
\* its first unit is baseUnits[first] = (1.0, first), whatever factor the unit's
\* definition declares, and every other unit of the category maps to
\* (its factor, first).
C12_BaseUnitReflexive ==
    Built /\ unit_table.ok =>
        \A i \in 1..Len(definitions) :
            LET units == definitions[i].units
                first == units[1].key
            IN  /\ unit_table.base_units_map[first] = <<Num(1), first>>
                /\ \A j \in 2..Len(units) :
                       unit_table.base_units_map[units[j].key] = <<units[j].factor, first>>

\* (a, op, b) -> c is an entry of the derived map
Resolves(a, op, b, c) ==
    /\ <<a, op, b>> \in DOMAIN unit_table.derived_units_map
    /\ unit_table.derived_units_map[<<a, op, b>>] = c

\* C13: in every successfully built registry the multiplication entries of
\* derivedOps are commutative: if (A,*,B) -> C is an entry then (B,*,A) -> C is
\* one, entries registered as the inverse of a division definition included.
C13_MultiplicationCommutative ==
    Built /\ unit_table.ok =>
        \A k \in DOMAIN unit_table.derived_units_map :
            k[2] = "*" => Resolves(k[3], "*", k[1], unit_table.derived_units_map[k])

\* C14: in every successfully built registry derivedOps is closed under
\* inverses for every entry it contains: with (A,*,B) -> C it contains
\* (C,/,A) -> B and (C,/,B) -> A; with (A,/,B) -> C it contains (A,/,C) -> B
\* and (C,*,B) -> A.
C14_InverseClosed ==
    Built /\ unit_table.ok =>
        \A k \in DOMAIN unit_table.derived_units_map :
            LET A == k[1]
                B == k[3]
                C == unit_table.derived_units_map[k]
            IN  IF k[2] = "*"
                THEN Resolves(C, "/", A, B) /\ Resolves(C, "/", B, A)
                ELSE Resolves(A, "/", C, B) /\ Resolves(C, "*", B, A)

\* the entries one step "current op next = result" registers are in the registry
Registered(current, op, next, result) ==
    IF op = "*"
    THEN /\ Resolves(current, "*", next, result) /\ Resolves(next, "*", current, result)
         /\ Resolves(result, "/", current, next) /\ Resolves(result, "/", next, current)
    ELSE /\ Resolves(current, "/", next, result) /\ Resolves(current, "/", result, next)
         /\ Resolves(result, "*", next, current)

\* C15: chain derivation.  In a successfully built registry, for a derived
\* expression A op1 B op2 C defining R, with (A,op1,B) -> I registered by an
\* earlier definition, the final step is registered on the intermediate unit I:
\* (I,op2,C) -> R together with its inverses.  For m, m2 = m * m, m3 = m * m * m
\* the registry resolves (m2,*,m) -> m3, (m3,/,m) -> m2, (m3,/,m2) -> m, and
\* still (m,*,m) -> m2 and (m2,/,m) -> m.
C15_ChainDerivation ==
    Built /\ unit_table.ok =>
        /\ \A i \in 1..Len(AllEntries(definitions)) :
               LET unit == AllEntries(definitions)[i].unit IN
               unit.derived # None /\ Len(unit.derived[1]) = 5 =>
                   LET parts == unit.derived[1] IN
                   /\ <<parts[1], parts[2], parts[3]>> \in DOMAIN unit_table.derived_units_map
                   /\ Registered(unit_table.derived_units_map[<<parts[1], parts[2], parts[3]>>],
                                 parts[4], parts[5], unit.key)
        /\ Enumerates(ChainDefinitions) =>
               /\ Resolves("m2", "*", "m", "m3")
               /\ Resolves("m3", "/", "m", "m2")
               /\ Resolves("m3", "/", "m2", "m")
               /\ Resolves("m", "*", "m", "m2")
               /\ Resolves("m2", "/", "m", "m")

\* C15: the registry of m, m2 = m * m, m3 = m * m * m was built, with m2 visited
\* before m3, and resolves the last step of the chain on m2.
C15_Witness ==
    /\ Built /\ unit_table.ok
    /\ Enumerates(ChainDefinitions)
    /\ Resolves("m2", "*", "m", "m3")
    /\ Resolves("m", "*", "m", "m2")

\* the unit keys of a category
Keys(category) == {category.units[i].key : i \in 1..Len(category.units)}

\* C16: if the same unit key is declared in two categories, construction fails
\* with DuplicatedUnit(key, category) and no registry is produced; the category
\* reported is the later-declared of the two (for m in length then m in area:
\* DuplicatedUnit("m", "area")), in every enumeration of the definitions.
C16_DuplicateReported ==
    Built =>
        \A declared \in Declared :
            Enumerates(declared) =>
                \A i, j \in 1..Len(declared) :
                    i < j /\ Keys(declared[i]) \cap Keys(declared[j]) # {} =>
                        /\ ~unit_table.ok
                        /\ unit_table.derived_units_map = EmptyMap
                        /\ unit_table.base_units_map = EmptyMap
                        /\ \E key \in Keys(declared[i]) \cap Keys(declared[j]) :
                               unit_table.err = DuplicatedUnit(key, declared[j].name)

\* the positions of the operator tokens of a derived expression
OperatorPositions(parts) == {i \in 1..Len(parts) : i % 2 = 0}

BadCount(parts) == Len(parts) < 3 \/ Len(parts) % 2 = 0

BadOperators(parts) == {i \in OperatorPositions(parts) : parts[i] \notin {"*", "/"}}

\* the token count is even or below 3, or an operator token is not "*" or "/"
Offending(parts) == BadCount(parts) \/ BadOperators(parts) # {}

\* the positions, in the order of visit, of the definitions with an offending
\* derived expression
OffendingEntries(entries) ==
    {k \in 1..Len(entries) :
        entries[k].unit.derived # None /\ Offending(entries[k].unit.derived[1])}

\* the original statement of C17: whenever some derived expression is
\* offending, construction fails with InvalidDerivedExpression carrying the
\* text of an offending expression, and no registry is produced.
C17_AlwaysInvalidDerivedExpression ==
    Built /\ OffendingEntries(AllEntries(definitions)) # {} =>
        /\ ~unit_table.ok
        /\ unit_table.derived_units_map = EmptyMap /\ unit_table.base_units_map = EmptyMap
        /\ \E k \in OffendingEntries(AllEntries(definitions)) :
               unit_table.err =
                   InvalidDerivedExpression(AllEntries(definitions)[k].unit.derived[1])

AllKeys(entries) == {entries[k].unit.key : k \in 1..Len(entries)}

\* the first product of parts is the whole expression of a definition visited
\* before position k
FirstProductVisited(entries, k, parts) ==
    \E h \in 1..(k - 1) :
        /\ entries[h].unit.derived # None
        /\ entries[h].unit.derived[1] = SubSeq(parts, 1, 3)

\* the definition at position k is processed without error when the ones
\* before it are: a valid expression over declared keys, with one operator, or
\* with two and its first product visited before
Processable(entries, k) ==
    entries[k].unit.derived # None =>
        LET parts == entries[k].unit.derived[1] IN
        /\ ~Offending(parts)
        /\ \A i \in 1..Len(parts) : i % 2 = 1 => parts[i] \in AllKeys(entries)
        /\ \/ Len(parts) = 3
           \/ Len(parts) = 5 /\ FirstProductVisited(entries, k, parts)

\* the offending token of the definition at position k is reached: the count
\* is bad, or the first unit is declared and the first bad operator is the
\* first operator, or the second one after a declared unit and a first product
\* visited before
OffendingTokenReached(entries, k) ==
    LET parts == entries[k].unit.derived[1] IN
    \/ BadCount(parts)
    \/ /\ parts[1] \in AllKeys(entries)
       /\ \/ 2 \in BadOperators(parts)
          \/ /\ 4 \in BadOperators(parts)
             /\ parts[3] \in AllKeys(entries)
             /\ FirstProductVisited(entries, k, parts)

\* C17 (amended): whenever some definition's derived expression has a token
\* count that is even or below 3, or an operator token other than "*" or "/",
\* construction fails and no registry is produced.  The error is
\* InvalidDerivedExpression carrying the text of the first such expression
\* visited when no unit key is declared twice, the definitions visited before
\* it are processed without error, and its offending token is reached before
\* an undeclared unit or a missing intermediate product; otherwise the error
\* can be DuplicatedUnit, UnitNotFound or a missing-intermediate message.
C17_InvalidExpressionFails ==
    Built /\ OffendingEntries(AllEntries(definitions)) # {} =>
        LET entries == AllEntries(definitions)
            first == CHOOSE k \in OffendingEntries(entries) :
                         \A h \in OffendingEntries(entries) : k <= h
        IN  /\ ~unit_table.ok
            /\ unit_table.derived_units_map = EmptyMap
            /\ unit_table.base_units_map = EmptyMap
            /\ unit_table.err.kind \in
                   {"InvalidDerivedExpression", "DuplicatedUnit", "UnitNotFound"}
            /\ (/\ Cardinality(AllKeys(entries)) = Len(entries)
                /\ \A h \in 1..(first - 1) : Processable(entries, h)
                /\ OffendingTokenReached(entries, first))
               => unit_table.err = InvalidDerivedExpression(entries[first].unit.derived[1])

\* C17: construction failed on m3 = "m * m + m", visited after m2 = "m * m",
\* with the text of the expression.
C17_Witness ==
    /\ Built /\ ~unit_table.ok
    /\ Enumerates(LateOperatorDefinitions)
    /\ unit_table.err = InvalidDerivedExpression(<<"m", "*", "m", "+", "m">>)

\* the base unit keys: the first unit of every category
BaseKeys(defs) == {defs[i].units[1].key : i \in {j \in 1..Len(defs) : defs[j].units # <<>>}}

\* C18: in every reachable session state every binding of the environment,
\* user variables and "$" alike, carries a unit that is the empty string or the
\* base unit key of some category.
C18_EnvironmentUnits ==
    \A name \in DOMAIN vars :
        vars[name][2] = "" \/ vars[name][2] \in BaseKeys(definitions)

-----------------------------------------------------------------------------
(* Two sessions built from the same definitions, their commands            *)
(* interleaved.  Each Interpretor value owns its unit_table and its vars;  *)
(* `run` and `result` record the commands a session was given and the      *)
(* result of the latest one.                                               *)

SessionIds == {1, 2}

\* number of commands each of the two sessions executes
MaxRun == 2

SessionDefSets == {TestDefinitions, FullDefinitions}

SessionCommands ==
    { <<"x", "=", "1", "m">>,
      <<"x", "=", "2", "cm">>,
      <<"x", "+", "$">>,
      <<"$", ">>", "cm">>,
      <<"y", "=", "x", "*", "x">> }

NoResult == [ok |-> FALSE, val |-> NoVal, err |-> NoErr]

ResultOf(r) == [ok |-> r.ok, val |-> r.val, err |-> r.err]

\* Interpretor::new(&definitions)
InterpretorNew(defs) ==
    [unit_table |-> UnitTableNew(defs), vars |-> EmptyMap, run |-> <<>>,
     result |-> NoResult]

InitSessions ==
    /\ definitions \in SessionDefSets
    /\ unit_table = UnitTableNew(definitions)
    /\ sessions = [s \in SessionIds |-> InterpretorNew(definitions)]
    /\ vars = EmptyMap
    /\ last = [cmd |-> <<>>, ok |-> FALSE, val |-> NoVal, err |-> NoErr, before |-> EmptyMap]
    /\ assigned = EmptyMap
    /\ ncmds = 0

\* one environment for all sessions
SharedVars(s) == sessions[1].vars

\* self.vars of session s
SelfVars(s) == sessions[s].vars

\* session s executes one command
ExecuteIn(s, command) ==
    /\ sessions[s].unit_table.ok
    /\ Len(sessions[s].run) < MaxRun
    /\ \E r \in {execute_command(command, sessions[s].unit_table, SelfVars(s))} :
           sessions' = [sessions EXCEPT ![s] =
                           [unit_table |-> sessions[s].unit_table,
                            vars |-> r.vars,
                            run |-> Append(sessions[s].run, command),
                            result |-> ResultOf(r)]]
    /\ UNCHANGED <<definitions, unit_table, vars, last, assigned, ncmds>>

NextSessions == \E s \in SessionIds : \E command \in SessionCommands : ExecuteIn(s, command)

SpecSessions == InitSessions /\ [][NextSessions]_allvars

\* the environment and the latest result of a session that executes run alone
RECURSIVE RunAlone(_, _)
RunAlone(run, table) ==
    IF run = <<>> THEN [vars |-> EmptyMap, result |-> NoResult]
    ELSE Bind(RunAlone(SubSeq(run, 1, Len(run) - 1), table), LAMBDA before :
             Bind(execute_command(run[Len(run)], table, before.vars), LAMBDA r :
                 [vars |-> r.vars, result |-> ResultOf(r)]))

\* C19: sessions are isolated and the registry is read-only.  For two sessions
\* built from the same definitions, under every interleaving of their commands,
\* no execute changes the definitions, baseUnits or derivedOps of either
\* session, and the latest result and the environment of each session are those
\* of its own command sequence run alone.
C19_SessionsIsolated ==
    /\ [](\A s \in SessionIds :
             Bind(RunAlone(sessions[s].run, UnitTableNew(definitions)), LAMBDA alone :
                 /\ sessions[s].vars = alone.vars
                 /\ sessions[s].result = alone.result))
    /\ [][/\ definitions' = definitions
          /\ \A s \in SessionIds : sessions'[s].unit_table = sessions[s].unit_table]_allvars

\* C19: both sessions have executed `x = ...` and `x + $`, with different
\* bindings of x and of "$".
C19_Witness ==
    /\ sessions[1].run = << <<"x", "=", "1", "m">>, <<"x", "+", "$">> >>
    /\ sessions[2].run = << <<"x", "=", "2", "cm">>, <<"x", "+", "$">> >>
    /\ sessions[1].vars["x"] = <<Num(1), "m">>
    /\ sessions[2].vars["x"] = <<Frac(1, 50), "m">>
    /\ sessions[1].result.val = <<Num(2), "m">>
    /\ sessions[2].result.val = <<Frac(1, 25), "m">>

\* C20: whether construction succeeds, and the derivedOps table it produces, do
\* not depend on the order in which categories and units are enumerated: every
\* enumeration of declared definitions gives the outcome of the declared order,
\* and m3 = m * m * m builds whether m2 = m * m is visited before or after it.
C20_OrderIndependent ==
    Built =>
        /\ \A declared \in Declared :
               Enumerates(declared) =>
                   /\ unit_table.ok = UnitTableNew(declared).ok
                   /\ unit_table.derived_units_map = UnitTableNew(declared).derived_units_map
        /\ Enumerates(ChainDefinitions) => unit_table.ok

-----------------------------------------------------------------------------
(* Frame of a command and grouping of operators.                           *)

\* the names the latest command may write: "$", and x for `x = e`
LastWritten ==
    IF LastParsed.ok /\ LastParsed.e[1] = "Assign" THEN {LastParsed.e[2], "$"} ELSE {"$"}

\* C21: a successful command changes at most two bindings of the environment:
\* a successful assignment `x = e` sets x and "$" to the returned result, any
\* other successful command sets "$" only, and every other binding keeps its
\* (value, unit); evaluating the expression of the command (literals,
\* variables, negation, arithmetic, conversion) writes nothing.
C21_FrameEffect ==
    /\ LastDone /\ last.ok =>
           /\ \A name \in (DOMAIN vars \cup DOMAIN last.before) \ LastWritten :
                  SameBinding(last.before, vars, name)
           /\ \A name \in LastWritten : Bound(vars, name) /\ vars[name] = last.val
           /\ DOMAIN vars = DOMAIN last.before \cup LastWritten
    /\ LastDone /\ LastParsed.ok =>
           IF LastParsed.e[1] = "Assign"
           THEN LastEval(LastParsed.e[3]).vars = last.before
           ELSE LastEval(LastParsed.e).vars = last.before

\* C21: a successful assignment to x gave x and "$" a new value in an
\* environment that binds another name, which kept its binding.
C21_Witness ==
    /\ LastDone /\ last.ok /\ LastParsed.e[1] = "Assign" /\ LastParsed.e[2] = "x"
    /\ Bound(last.before, "x") /\ last.before["x"] # last.val
    /\ Bound(last.before, "$") /\ last.before["$"] # last.val
    /\ vars["x"] = last.val /\ vars["$"] = last.val
    /\ \E name \in DOMAIN last.before \ {"x", "$"} : vars[name] = last.before[name]

BinaryOps == DOMAIN ProductOps \cup DOMAIN SumOps

\* the Expr an integer token without unit parses to, and a binary node
Literal(t) == <<"Num", Num(IntVal[t]), "">>

Node(op, lhs, rhs) == <<(ProductOps @@ SumOps)[op], lhs, rhs>>

\* the arithmetic of a binary operator on two numbers
Apply(op, x, y) ==
    CASE op = "+" -> FAdd(x, y)
      [] op = "-" -> FSub(x, y)
      [] op = "*" -> FMul(x, y)
      [] op = "/" -> FDiv(x, y)

\* the latest command parsed to the expression e, without conversion, and
\* returned the dimensionless number v
LastGrouped(e, v) ==
    /\ LastParsed.ok /\ LastParsed.e = <<"To", e, None>>
    /\ last.ok /\ last.val = <<v, "">>

\* C22: `*` and `/` bind tighter than `+` and `-`, both levels associate to
\* the left, and unary minus binds tighter than any binary operator.  For
\* integers without unit, `a op1 b op2 c` is parsed and evaluated as
\* a op1 (b op2 c) when op1 is `+` or `-` and op2 is `*` or `/` (`1 + 2 * 3` is
\* 7), and as (a op1 b) op2 c otherwise (`a - b - c`, `a / b / c`); `- a op b`
\* is (-a) op b; parentheses override the grouping.
C22_Precedence ==
    LastDone =>
        LET c == last.cmd
            n(i) == Num(IntVal[c[i]])
        IN
        /\ Len(c) = 5 /\ IsInt(c[1]) /\ IsInt(c[3]) /\ IsInt(c[5])
               /\ c[2] \in BinaryOps /\ c[4] \in BinaryOps =>
               IF c[2] \in DOMAIN SumOps /\ c[4] \in DOMAIN ProductOps
               THEN LastGrouped(
                        Node(c[2], Literal(c[1]), Node(c[4], Literal(c[3]), Literal(c[5]))),
                        Apply(c[2], n(1), Apply(c[4], n(3), n(5))))
               ELSE LastGrouped(
                        Node(c[4], Node(c[2], Literal(c[1]), Literal(c[3])), Literal(c[5])),
                        Apply(c[4], Apply(c[2], n(1), n(3)), n(5)))
        /\ Len(c) = 4 /\ c[1] = "-" /\ IsInt(c[2]) /\ c[3] \in BinaryOps /\ IsInt(c[4]) =>
               LastGrouped(Node(c[3], <<"Neg", Literal(c[2])>>, Literal(c[4])),
                           Apply(c[3], FNeg(n(2)), n(4)))
        /\ Len(c) = 7 /\ c[1] = "(" /\ IsInt(c[2]) /\ c[3] \in BinaryOps /\ IsInt(c[4])
               /\ c[5] = ")" /\ c[6] \in BinaryOps /\ IsInt(c[7]) =>
               LastGrouped(Node(c[6], Node(c[3], Literal(c[2]), Literal(c[4])), Literal(c[7])),
                           Apply(c[6], Apply(c[3], n(2), n(4)), n(7)))
        /\ Len(c) = 7 /\ IsInt(c[1]) /\ c[2] \in BinaryOps /\ c[3] = "(" /\ IsInt(c[4])
               /\ c[5] \in BinaryOps /\ IsInt(c[6]) /\ c[7] = ")" =>
               LastGrouped(Node(c[2], Literal(c[1]), Node(c[5], Literal(c[4]), Literal(c[6]))),
                           Apply(c[2], n(1), Apply(c[5], n(4), n(6))))

====
